---- MODULE Spec2Model ----
(***************************************************************************)
(* Model of grove/connectors/google/bigquery_query.py: Connector.collect.  *)
(*                                                                         *)
(* One collect run is a state machine: configuration validation, client    *)
(* construction, pointer resolution, then the paging loop (build query,    *)
(* execute, accumulate, decide) ending in save or in an error.             *)
(*                                                                         *)
(* Text is modelled as a sequence of one-character strings, so that int(), *)
(* str(), strip(), replace() and the ISO parser are computed, not assumed. *)
(* A date-time text "YYYY-MM-DD HH:MM:SS" is written "D" followed by the   *)
(* decimal digits of the epoch second it denotes (a one-to-one rendering   *)
(* of a second-resolution instant); offsets are written as in Python.      *)
(***************************************************************************)
EXTENDS Integers, Sequences, FiniteSets, TLC

(***************************************************************************)
(* Bounds of the model.                                                    *)
(***************************************************************************)
\* Largest max_batches a configuration of the model carries.
MaxMaxBatches == 3
\* Number of rows of the model's table whose key equals the query bound.
MaxAtBound == 1
\* Seconds past (epoch + 7 days) of the clock readings of the model.
MaxClockSecond == 100

(***************************************************************************)
(* Program constants.                                                      *)
(***************************************************************************)
PageLimit == 1000
DefaultMaxBatches == 3
WeekDays == 7
Million == 1000000
WeekSeconds == WeekDays * 24 * 60 * 60

(***************************************************************************)
(* Text helpers: Python's str.strip, int(), str(), str.replace.            *)
(***************************************************************************)
Digits == <<"0", "1", "2", "3", "4", "5", "6", "7", "8", "9">>

IsDigit(c) == \E d \in 1..10 : Digits[d] = c

DigitVal(c) == (CHOOSE d \in 1..10 : Digits[d] = c) - 1

RECURSIVE LStrip(_)
LStrip(s) == IF s # <<>> /\ Head(s) = " " THEN LStrip(Tail(s)) ELSE s

RECURSIVE RStrip(_)
RStrip(s) ==
    IF s # <<>> /\ s[Len(s)] = " " THEN RStrip(SubSeq(s, 1, Len(s) - 1)) ELSE s

Strip(s) == RStrip(LStrip(s))

\* The digits of an integer literal: whitespace stripped, one sign allowed.
IntBody(s) ==
    LET t == Strip(s)
    IN  IF t # <<>> /\ Head(t) \in {"+", "-"} THEN Tail(t) ELSE t

\* int(s) does not raise ValueError.
IntParses(s) ==
    LET b == IntBody(s)
    IN  b # <<>> /\ \A i \in 1..Len(b) : IsDigit(b[i])

RECURSIVE DigitsValue(_)
DigitsValue(b) ==
    IF b = <<>> THEN 0
    ELSE DigitsValue(SubSeq(b, 1, Len(b) - 1)) * 10 + DigitVal(b[Len(b)])

\* int(s), for s with IntParses(s).
PyInt(s) ==
    IF Head(Strip(s)) = "-" THEN 0 - DigitsValue(IntBody(s))
    ELSE DigitsValue(IntBody(s))

RECURSIVE NatStr(_)
NatStr(n) ==
    IF n < 10 THEN <<Digits[n + 1]>>
    ELSE NatStr(n \div 10) \o <<Digits[(n % 10) + 1]>>

\* str(n) of an integer.
PyStr(n) == IF n < 0 THEN <<"-">> \o NatStr(0 - n) ELSE NatStr(n)

StartsWith(s, p) == Len(s) >= Len(p) /\ SubSeq(s, 1, Len(p)) = p

\* s.replace(old, new): leftmost, non-overlapping occurrences.
RECURSIVE Replace(_, _, _)
Replace(s, old, new) ==
    IF s = <<>> THEN <<>>
    ELSE IF StartsWith(s, old)
         THEN new \o Replace(SubSeq(s, Len(old) + 1, Len(s)), old, new)
         ELSE <<Head(s)>> \o Replace(Tail(s), old, new)

PlusZero == <<"+", "0", "0">>
ColonZero == <<":", "0", "0">>

\* datetime.fromisoformat(s) does not raise ValueError: a date-time, then
\* nothing, or a UTC offset +HH:MM or +HH:MM:SS.
IsoParses(s) ==
    /\ s # <<>>
    /\ s[1] = "D"
    /\ \E k \in 1..(Len(s) - 1) :
          /\ \A i \in 2..(k + 1) : IsDigit(s[i])
          /\ SubSeq(s, k + 2, Len(s)) \in
                {<<>>, PlusZero \o ColonZero, PlusZero \o ColonZero \o ColonZero}

\* The epoch second a date-time text denotes (the value fromisoformat and
\* the TIMESTAMP('...') literal of the query give it), for s with
\* IsoParses(s) or IsoParses of s with its +00 completed.
IsoSeconds(s) ==
    LET k == CHOOSE j \in 1..(Len(s) - 1) :
                 /\ \A i \in 2..(j + 1) : IsDigit(s[i])
                 /\ (j + 1 = Len(s) \/ ~IsDigit(s[j + 2]))
    IN  DigitsValue(SubSeq(s, 2, k + 1))

\* week_ago.strftime("%Y-%m-%d %H:%M:%S+00"): the sub-second part is dropped.
Strftime(dt) == <<"D">> \o NatStr(dt.sec) \o PlusZero

\* int(week_ago.timestamp() * 1_000_000)
EpochUsec(dt) == dt.sec * Million + dt.usec

(***************************************************************************)
(* Configuration values: an attribute is missing, or holds a typed value.  *)
(***************************************************************************)
MissingV == [type |-> "missing", s |-> "", n |-> 0, l |-> <<>>]
NoneV == [type |-> "none", s |-> "", n |-> 0, l |-> <<>>]
StrV(x) == [type |-> "str", s |-> x, n |-> 0, l |-> <<>>]
IntV(x) == [type |-> "int", s |-> "", n |-> x, l |-> <<>>]
ListV(x) == [type |-> "list", s |-> "", n |-> 0, l |-> x]

\* Python truthiness of a configuration value.
Truthy(v) ==
    CASE v.type = "str" -> v.s # ""
      [] v.type = "int" -> v.n # 0
      [] v.type = "list" -> v.l # <<>>
      [] OTHER -> FALSE

\* getattr(self.configuration, name, default)
GetAttr(v, default) == IF v.type = "missing" THEN default ELSE v

\* Lines 30-67 without the time_format check of lines 60-63.
ValidationError_NoTimeFormat(cfg) ==
    LET mb == GetAttr(cfg.max_batches, IntV(DefaultMaxBatches))
    IN  IF \E f \in {"project_id", "dataset_name", "table_name", "columns",
                     "pointer_path"} : cfg[f].type = "missing"
        THEN "ConfigurationException"
        ELSE IF ~Truthy(cfg.pointer_path) THEN "ConfigurationException"
        ELSE IF ~(mb.type = "int") \/ mb.n <= 0 THEN "ConfigurationException"
        ELSE IF \E f \in {"project_id", "dataset_name", "table_name"} :
                    cfg[f].type # "str"
             THEN "ConfigurationException"
        ELSE IF cfg.columns.type # "list" THEN "ConfigurationException"
        ELSE "none"

\* Lines 30-67: the exception collect raises while reading and checking the
\* configuration, "none" when every check passes.
ValidationError(cfg) ==
    LET mb == GetAttr(cfg.max_batches, IntV(DefaultMaxBatches))
        tf == GetAttr(cfg.time_format, StrV("microseconds"))
    IN  IF \E f \in {"project_id", "dataset_name", "table_name", "columns",
                     "pointer_path"} : cfg[f].type = "missing"
        THEN "ConfigurationException"      \* AttributeError, line 64
        ELSE IF ~Truthy(cfg.pointer_path) THEN "ConfigurationException"
        ELSE IF ~(mb.type = "int") \/ mb.n <= 0 THEN "ConfigurationException"
        ELSE IF \E f \in {"project_id", "dataset_name", "table_name"} :
                    cfg[f].type # "str"
             THEN "ConfigurationException"
        ELSE IF cfg.columns.type # "list" THEN "ConfigurationException"
        ELSE IF ~(tf \in {StrV("microseconds"), StrV("timestamp")})
             THEN "ConfigurationException"
        ELSE "none"

(***************************************************************************)
(* Pointer resolution, lines 81-125.                                       *)
(***************************************************************************)
\* The pointer store holds a string or nothing (self.pointer raises
\* NotFoundException).
Absent == [present |-> FALSE, val |-> <<>>]
Present(s) == [present |-> TRUE, val |-> s]

\* A local that is assigned on some paths only.
Unset == [set |-> FALSE, val |-> 0]
Assigned(n) == [set |-> TRUE, val |-> n]

\* Line 88: the guard of the format validation.
NonBlank(s) == s # <<>> /\ Strip(s) # <<>>

\* Lines 88-102 with the integer tested for truth instead of parsed only:
\* a pointer of 0 is refused.
ValidatePointer_ZeroRefused(stored, tf) ==
    IF NonBlank(stored)
    THEN IF tf = "microseconds"
         THEN IF IntParses(stored) /\ PyInt(stored) # 0
              THEN "none" ELSE "ConfigurationException"
         ELSE IF IsoParses(Replace(stored, PlusZero, PlusZero \o ColonZero))
              THEN "none" ELSE "ConfigurationException"
    ELSE "none"

\* Lines 88-102 left out: the stored pointer is not validated.
ValidatePointer_Skipped(stored, tf) == "none"

\* Lines 88-102: the exception the validation block raises, "none" if none.
ValidatePointer(stored, tf) ==
    IF NonBlank(stored)
    THEN IF tf = "microseconds"
         THEN IF IntParses(stored) THEN "none" ELSE "ConfigurationException"
         ELSE IF IsoParses(Replace(stored, PlusZero, PlusZero \o ColonZero))
              THEN "none" ELSE "ConfigurationException"
    ELSE "none"

\* Lines 104-109 with the integer pointer written back but never bound to
\* pointer_epoch_usec.
NativePointer_NoConversion(stored, tf) ==
    IF tf = "microseconds" /\ ~IntParses(stored)
    THEN [exc |-> "ValueError", pointer |-> Present(stored), usec |-> Unset]
    ELSE [exc |-> "none", pointer |-> Present(stored), usec |-> Unset]

\* Lines 104-109 with the timestamp stored in its completed form (+00:00).
NativePointer_Normalised(stored, tf) ==
    IF tf = "microseconds"
    THEN IF IntParses(stored)
         THEN [exc |-> "none", pointer |-> Present(PyStr(PyInt(stored))),
               usec |-> Assigned(PyInt(stored))]
         ELSE [exc |-> "ValueError", pointer |-> Present(stored), usec |-> Unset]
    ELSE [exc |-> "none",
          pointer |-> Present(Replace(stored, PlusZero, PlusZero \o ColonZero)),
          usec |-> Unset]

\* Lines 104-109: the pointer in native form; int() may raise ValueError.
NativePointer(stored, tf) ==
    IF tf = "microseconds"
    THEN IF IntParses(stored)
         THEN [exc |-> "none", pointer |-> Present(PyStr(PyInt(stored))),
               usec |-> Assigned(PyInt(stored))]
         ELSE [exc |-> "ValueError", pointer |-> Present(stored), usec |-> Unset]
    ELSE [exc |-> "none", pointer |-> Present(stored), usec |-> Unset]

\* Lines 82-109, the body of the try: the exception that leaves it ("none"
\* when it completes), the value self.pointer holds and pointer_epoch_usec.
TryResolve(st, tf) ==
    IF ~st.present
    THEN [exc |-> "NotFoundException", pointer |-> st, usec |-> Unset]
    ELSE IF ValidatePointer(st.val, tf) # "none"
         THEN [exc |-> ValidatePointer(st.val, tf), pointer |-> st, usec |-> Unset]
         ELSE NativePointer(st.val, tf)

\* Line 111 without ConfigurationException in the except clause.
Caught_NoConfiguration(exc) == exc \in {"NotFoundException", "ValueError"}

\* Line 111: the exceptions the except clause handles.
Caught(exc) == exc \in {"NotFoundException", "ValueError", "ConfigurationException"}

\* Lines 113-114 with the sub-second part of the clock reading dropped.
WeekAgo_WholeSecond(clock) == [sec |-> clock.sec - WeekSeconds, usec |-> 0]

\* Lines 113-114: datetime.utcnow() - timedelta(days=7), as a UTC instant.
WeekAgo(clock) == [sec |-> clock.sec - WeekSeconds, usec |-> clock.usec]

\* Lines 116-121: the pointer and the integer bound of a cold start.
ColdStart(tf, clock) ==
    IF tf = "microseconds"
    THEN [pointer |-> Present(PyStr(EpochUsec(WeekAgo(clock)))),
          usec |-> Assigned(EpochUsec(WeekAgo(clock)))]
    ELSE [pointer |-> Present(Strftime(WeekAgo(clock))),
          usec |-> Assigned(EpochUsec(WeekAgo(clock)))]

\* Lines 81-125 as a whole: the exception that left the try body, the one
\* that reaches the caller ("none" when the except clause handles it or none
\* was raised), the value self.pointer holds and pointer_epoch_usec.
ResolveOutcome(st, tf, clk) ==
    LET r == TryResolve(st, tf)
        c == ColdStart(tf, clk)
    IN  IF r.exc = "none"
        THEN [raised |-> "none", error |-> "none", pointer |-> r.pointer,
              usec |-> r.usec]
        ELSE IF Caught(r.exc)
             THEN [raised |-> r.exc, error |-> "none", pointer |-> c.pointer,
                   usec |-> c.usec]
             ELSE [raised |-> r.exc, error |-> r.exc, pointer |-> st,
                   usec |-> Unset]

(***************************************************************************)
(* The query and the remote table, lines 131-158.                          *)
(***************************************************************************)
\* Lines 132-140 with >= for >.
WhereClause_OrEqual(tf, usec, ptr) ==
    IF tf = "microseconds"
    THEN [op |-> ">=", kind |-> "integer", text |-> PyStr(usec.val)]
    ELSE [op |-> ">=", kind |-> "TIMESTAMP", text |-> ptr.val]

\* Lines 132-140: the comparison of the WHERE clause.
WhereClause(tf, usec, ptr) ==
    IF tf = "microseconds"
    THEN [op |-> ">", kind |-> "integer", text |-> PyStr(usec.val)]
    ELSE [op |-> ">", kind |-> "TIMESTAMP", text |-> ptr.val]

\* Lines 142-149: the query text, by its parts.
BuildQueryText(cfg, tf, usec, ptr) ==
    [select |-> cfg.columns.l,
     from |-> <<cfg.project_id.s, cfg.dataset_name.s, cfg.table_name.s>>,
     path |-> cfg.pointer_path.s,
     where |-> WhereClause(tf, usec, ptr),
     notnull |-> TRUE,
     order |-> "ASC",
     limit |-> PageLimit]

Min(a, b) == IF a < b THEN a ELSE b

\* The remote table, seen from the query bound: `at` rows whose key equals
\* the bound (rows 1-at .. 0) and `above` rows whose key is greater (rows
\* 1 .. above), numbered in ascending key order.  The result of a query is
\* the first `limit` rows that satisfy its comparison, in that order.
RunQuery(q, tbl) ==
    LET first == IF q.where.op = ">" THEN 1 ELSE 1 - tbl.at
        n == Min(q.limit, tbl.above - first + 1)
    IN  [i \in 1..n |-> first + i - 1]

\* Line 170 without the short-page test.
ShouldFlush_BudgetOnly(bc, mb, n) == bc >= mb

\* Line 170 with the budget test off by one (> for >=).
ShouldFlush_OverBudget(bc, mb, n) == bc > mb \/ n < PageLimit

\* Line 170: the loop saves and ends after this page.
ShouldFlush(bc, mb, n) == bc >= mb \/ n < PageLimit

(***************************************************************************)
(* State of one collect run and of its collaborators.                      *)
(***************************************************************************)
VARIABLES
    pc,                 \* position of collect
    error,              \* the exception collect raised to its caller
    config,             \* self.configuration
    clock,              \* the reading datetime.utcnow() returns
    store,              \* the pointer store behind self.pointer
    table,              \* the remote table, seen from the query bound
    time_format,        \* local time_format
    max_batches,        \* local max_batches
    pointer_epoch_usec, \* local pointer_epoch_usec
    query,              \* local query
    all_rows,           \* local all_rows
    batch_count,        \* local batch_count
    saveCalls,          \* the arguments of the calls of self.save, in order
    saveFailed,         \* a call of self.save raised
    fetches,            \* number of calls of client.query
    pages,              \* the length of each page a query returned
    queries,            \* the queries handed to client.query, in order
    queryFailed,        \* a query execution raised
    raised,             \* the exception that left the try body of lines 82-109
    store0,             \* the pointer store before the run
    table0,             \* the remote table before the run
    sourceChanged       \* the remote table changed during the run

vars == <<pc, error, config, clock, store, table, time_format, max_batches,
          pointer_epoch_usec, query, all_rows, batch_count, saveCalls,
          saveFailed, fetches, pages, queries, queryFailed, raised, store0,
          table0, sourceChanged>>

NoQuery ==
    [select |-> <<>>, from |-> <<"", "", "">>, path |-> "",
     where |-> [op |-> "", kind |-> "", text |-> <<>>],
     notnull |-> FALSE, order |-> "", limit |-> 0]

(***************************************************************************)
(* Inputs of the model.                                                    *)
(***************************************************************************)
BaseConfig(mb, tf) ==
    [project_id |-> StrV("proj"), dataset_name |-> StrV("logs"),
     table_name |-> StrV("audit"), columns |-> ListV(<<"ts", "msg">>),
     max_batches |-> mb, pointer_path |-> StrV("ts"), time_format |-> tf]

\* Configurations that satisfy every rule of the data model.
GoodConfigs ==
    {BaseConfig(mb, tf) :
        mb \in {MissingV} \cup {IntV(k) : k \in 1..MaxMaxBatches},
        tf \in {MissingV, StrV("microseconds"), StrV("timestamp")}}

\* Configurations that break one rule.
BadConfigs ==
    LET b == BaseConfig(IntV(1), StrV("timestamp"))
    IN  {[b EXCEPT ![f] = MissingV] :
            f \in {"project_id", "dataset_name", "table_name", "columns",
                   "pointer_path"}}
        \cup {[b EXCEPT ![f] = v] :
                f \in {"project_id", "dataset_name", "table_name"},
                v \in {IntV(5), NoneV, StrV("")}}
        \cup {[b EXCEPT !.columns = v] : v \in {StrV("ts"), NoneV, ListV(<<>>)}}
        \cup {[b EXCEPT !.pointer_path = v] : v \in {StrV(""), NoneV}}
        \cup {[b EXCEPT !.max_batches = v] :
                v \in {IntV(0), IntV(0 - 1), StrV("3"), NoneV}}
        \cup {[b EXCEPT !.time_format = v] : v \in {StrV("seconds"), NoneV, IntV(1)}}

Configs == GoodConfigs \cup BadConfigs

\* What the pointer store may hold before a run.
StoredPointers ==
    {Absent,
     Present(<<>>), Present(<<" ">>),
     Present(<<"0">>), Present(<<"7">>), Present(PyStr(MaxClockSecond * Million + 1)),
     Present(<<"0", "0", "7">>), Present(<<" ", "1", "2">>),
     Present(<<"-", "5">>),
     Present(<<"x">>), Present(<<"1", "2", ".", "5">>),
     Present(<<"D", "4", "2">>),
     Present(<<"D", "4", "2">> \o PlusZero),
     Present(<<"D", "4", "2">> \o PlusZero \o ColonZero),
     Present(<<"D", "4", "2">> \o PlusZero \o PlusZero)}

Clocks ==
    {[sec |-> WeekSeconds + MaxClockSecond, usec |-> u] : u \in {0, 123456}}

AboveCounts ==
    {0, 1, PageLimit - 1, PageLimit + 1} \cup {k * PageLimit : k \in 1..MaxMaxBatches}

Tables ==
    {[at |-> MaxAtBound, above |-> n] : n \in AboveCounts}
    \cup {[at |-> 0, above |-> PageLimit]}

\* Exceptions bigquery.Client(...) and get_credentials() raise.
ClientErrors == {"ConfigurationException", "DefaultCredentialsError"}

Init ==
    /\ pc = "validate"
    /\ error = "none"
    /\ config \in Configs
    /\ clock \in Clocks
    /\ store \in StoredPointers
    /\ table \in Tables
    /\ time_format = "unset"
    /\ max_batches = 0
    /\ pointer_epoch_usec = Unset
    /\ query = NoQuery
    /\ all_rows = <<>>
    /\ batch_count = 0
    /\ saveCalls = <<>>
    /\ saveFailed = FALSE
    /\ fetches = 0
    /\ pages = <<>>
    /\ queries = <<>>
    /\ queryFailed = FALSE
    /\ raised = "none"
    /\ store0 = store
    /\ table0 = table
    /\ sourceChanged = FALSE

(***************************************************************************)
(* The steps of collect.                                                   *)
(***************************************************************************)
loopVars == <<query, all_rows, batch_count, saveCalls, saveFailed, fetches,
              pages, queries, queryFailed>>
envVars == <<config, clock, table, store0, table0, sourceChanged>>

\* Lines 30-69: read and validate the configuration.
Validate ==
    /\ pc = "validate"
    /\ IF ValidationError(config) = "none"
       THEN /\ pc' = "client"
            /\ error' = error
            /\ time_format' = GetAttr(config.time_format, StrV("microseconds")).s
            /\ max_batches' = GetAttr(config.max_batches, IntV(DefaultMaxBatches)).n
       ELSE /\ pc' = "failed"
            /\ error' = ValidationError(config)
            /\ UNCHANGED <<time_format, max_batches>>
    /\ UNCHANGED <<store, pointer_epoch_usec, raised>>
    /\ UNCHANGED loopVars
    /\ UNCHANGED envVars

\* Lines 71-75: the client is constructed.
CreateClient ==
    /\ pc = "client"
    /\ pc' = "resolve"
    /\ UNCHANGED <<error, store, time_format, max_batches, pointer_epoch_usec, raised>>
    /\ UNCHANGED loopVars
    /\ UNCHANGED envVars

\* Lines 76-78: constructing the client raised; the exception is re-raised.
ClientFails ==
    /\ pc = "client"
    /\ pc' = "failed"
    /\ error' \in ClientErrors
    /\ UNCHANGED <<store, time_format, max_batches, pointer_epoch_usec, raised>>
    /\ UNCHANGED loopVars
    /\ UNCHANGED envVars

\* Lines 81-129: resolve the pointer (the try and its except clause), then
\* initialise the loop.
ResolvePointer ==
    /\ pc = "resolve"
    /\ LET o == ResolveOutcome(store, time_format, clock)
       IN  /\ raised' = o.raised
           /\ error' = o.error
           /\ store' = o.pointer
           /\ pointer_epoch_usec' = o.usec
           /\ pc' = IF o.error = "none" THEN "build" ELSE "failed"
    /\ all_rows' = <<>>
    /\ batch_count' = 0
    /\ UNCHANGED <<time_format, max_batches, query, saveCalls, saveFailed,
                   fetches, pages, queries, queryFailed>>
    /\ UNCHANGED envVars

\* Lines 131-150: build the query of the next page.  Reading
\* pointer_epoch_usec before any assignment raises UnboundLocalError.
BuildQuery ==
    /\ pc = "build"
    /\ IF time_format = "microseconds" /\ ~pointer_epoch_usec.set
       THEN /\ pc' = "failed"
            /\ error' = "UnboundLocalError"
            /\ query' = query
       ELSE /\ pc' = "execute"
            /\ error' = error
            /\ query' = BuildQueryText(config, time_format, pointer_epoch_usec, store)
    /\ UNCHANGED <<store, time_format, max_batches, pointer_epoch_usec, raised,
                   all_rows, batch_count, saveCalls, saveFailed, fetches, pages,
                   queries, queryFailed>>
    /\ UNCHANGED envVars

\* Lines 152-176 with save called on every page as it arrives, instead of
\* once on the accumulated rows.
PageReturned_SaveEachPage(rows) ==
    /\ fetches' = fetches + 1
    /\ queries' = Append(queries, query)
    /\ pages' = Append(pages, Len(rows))
    /\ IF rows = <<>>
       THEN /\ pc' = "done"
            /\ UNCHANGED <<all_rows, batch_count, saveCalls>>
       ELSE /\ all_rows' = all_rows \o rows
            /\ batch_count' = batch_count + 1
            /\ saveCalls' = Append(saveCalls, rows)
            /\ pc' = IF ShouldFlush(batch_count + 1, max_batches, Len(rows))
                     THEN "done" ELSE "build"

\* Lines 152-176 with a query that returns `rows` and a save that returns
\* (when the code reaches it).
PageReturned(rows) ==
    /\ fetches' = fetches + 1
    /\ queries' = Append(queries, query)
    /\ pages' = Append(pages, Len(rows))
    /\ IF rows = <<>>
       THEN /\ pc' = "done"
            /\ UNCHANGED <<all_rows, batch_count, saveCalls>>
       ELSE /\ all_rows' = all_rows \o rows
            /\ batch_count' = batch_count + 1
            /\ IF ShouldFlush(batch_count + 1, max_batches, Len(rows))
               THEN /\ saveCalls' = IF all_rows \o rows # <<>>
                                    THEN Append(saveCalls, all_rows \o rows)
                                    ELSE saveCalls
                    /\ pc' = "done"
               ELSE /\ saveCalls' = saveCalls
                    /\ pc' = "build"

\* The downstream sink's save, at its interface: the pointer store once the
\* sink has recorded `rows`.  The interface gives save no effect on it.
SinkSave(st, rows) == st

\* QueryReturns with the pointer advanced to the key of the last row of
\* each page.
QueryReturns_AdvancePointer ==
    /\ pc = "execute"
    /\ PageReturned(RunQuery(query, table))
    /\ LET rows == RunQuery(query, table)
       IN  store' = IF rows = <<>> THEN store
                    ELSE Present(PyStr(rows[Len(rows)]))
    /\ UNCHANGED <<error, time_format, max_batches, pointer_epoch_usec,
                   raised, query, saveFailed, queryFailed>>
    /\ UNCHANGED envVars

QueryReturns ==
    /\ pc = "execute"
    /\ PageReturned(RunQuery(query, table))
    /\ store' = IF saveCalls' # saveCalls
                THEN SinkSave(store, saveCalls'[Len(saveCalls')]) ELSE store
    /\ UNCHANGED <<error, time_format, max_batches, pointer_epoch_usec,
                   raised, query, saveFailed, queryFailed>>
    /\ UNCHANGED envVars

\* Lines 152-180 with save called outside the try: its exception reaches
\* the caller as it is.
SaveFails_Unwrapped ==
    /\ pc = "execute"
    /\ LET rows == RunQuery(query, table)
       IN  /\ rows # <<>>
           /\ ShouldFlush(batch_count + 1, max_batches, Len(rows))
           /\ all_rows \o rows # <<>>
           /\ fetches' = fetches + 1
           /\ queries' = Append(queries, query)
           /\ pages' = Append(pages, Len(rows))
           /\ all_rows' = all_rows \o rows
           /\ batch_count' = batch_count + 1
           /\ saveCalls' = Append(saveCalls, all_rows \o rows)
    /\ saveFailed' = TRUE
    /\ pc' = "failed"
    /\ error' = "SinkError"
    /\ UNCHANGED <<store, time_format, max_batches, pointer_epoch_usec, raised,
                   query, queryFailed>>
    /\ UNCHANGED envVars

\* Lines 152-180 with a query that returns and a save that raises: the
\* handler of line 178 turns the exception into RequestFailedException.
SaveFails ==
    /\ pc = "execute"
    /\ LET rows == RunQuery(query, table)
       IN  /\ rows # <<>>
           /\ ShouldFlush(batch_count + 1, max_batches, Len(rows))
           /\ all_rows \o rows # <<>>
           /\ fetches' = fetches + 1
           /\ queries' = Append(queries, query)
           /\ pages' = Append(pages, Len(rows))
           /\ all_rows' = all_rows \o rows
           /\ batch_count' = batch_count + 1
           /\ saveCalls' = Append(saveCalls, all_rows \o rows)
    /\ saveFailed' = TRUE
    /\ pc' = "failed"
    /\ error' = "RequestFailedException"
    /\ UNCHANGED <<store, time_format, max_batches, pointer_epoch_usec, raised,
                   query, queryFailed>>
    /\ UNCHANGED envVars

\* Lines 154-155 and 178-180: the query execution raises.
QueryFails ==
    /\ pc = "execute"
    /\ fetches' = fetches + 1
    /\ queries' = Append(queries, query)
    /\ queryFailed' = TRUE
    /\ pc' = "failed"
    /\ error' = "RequestFailedException"
    /\ UNCHANGED <<store, time_format, max_batches, pointer_epoch_usec, raised,
                   query, all_rows, batch_count, saveCalls, saveFailed, pages>>
    /\ UNCHANGED envVars

\* The remote table changes between two pages of a run: it is emptied
\* (truncated, or its rows expire), or a row with a greater key arrives.
SourceChanges ==
    /\ pc = "build"
    /\ batch_count >= 1
    /\ ~sourceChanged
    /\ sourceChanged' = TRUE
    /\ table' \in {[at |-> 0, above |-> 0],
                   [at |-> table.at, above |-> table.above + 1]}
    /\ UNCHANGED <<pc, error, config, clock, store, time_format, max_batches,
                   pointer_epoch_usec, raised, store0, table0>>
    /\ UNCHANGED loopVars

Next ==
    \/ Validate
    \/ CreateClient
    \/ ClientFails
    \/ ResolvePointer
    \/ BuildQuery
    \/ QueryReturns
    \/ SaveFails
    \/ QueryFails
    \/ SourceChanges

Spec == Init /\ [][Next]_vars

\* The steps collect itself takes (a remote call that returns is a step:
\* with a result, or with an exception).
Collect ==
    \/ Validate
    \/ CreateClient
    \/ ClientFails
    \/ ResolvePointer
    \/ BuildQuery
    \/ QueryReturns
    \/ SaveFails
    \/ QueryFails

(***************************************************************************)
(* Vocabulary of the properties.                                           *)
(***************************************************************************)
\* Pointer resolution has run.
Resolved == raised # "none" \/ pc \in {"build", "execute", "done"} \/ fetches > 0

\* The paging loop has ended: by break, or by an exception of save.
LoopEnded == pc = "done" \/ saveFailed

\* The run ended Aborted because a query execution failed.
Aborted == pc = "failed" /\ queryFailed

\* Some page of the run returned rows.
SomePageHadRows == \E i \in 1..Len(pages) : pages[i] > 0

NoDuplicates(s) == Cardinality({s[i] : i \in 1..Len(s)}) = Len(s)

(***************************************************************************)
(* Properties.                                                             *)
(***************************************************************************)
\* C1: in every run in which no query execution fails and at least one page
\* returned rows, save is invoked exactly once, with all accumulated rows,
\* however the loop ends (short page, budget reached, or a later empty page).
C1_SaveOnceWithAllRows ==
    (LoopEnded /\ ~queryFailed /\ SomePageHadRows)
        => (Len(saveCalls) = 1 /\ saveCalls[1] = all_rows)

\* C2: if the query execution of any page fails, the run ends with
\* RequestFailedException and save is never invoked in that run.
C2_QueryFailureAbortsWithoutSave ==
    queryFailed
        => (pc = "failed" /\ error = "RequestFailedException" /\ saveCalls = <<>>)

\* C2 witness: a query fails after an earlier page returned rows.
C2_Witness == queryFailed /\ batch_count >= 1 /\ all_rows # <<>>

C4_NoRecordTwice ==
    ~sourceChanged => \A k \in 1..Len(saveCalls) : NoDuplicates(saveCalls[k])

\* C5: with exactly max_batches * 1000 eligible rows and no query failure the
\* run performs exactly max_batches fetches and passes max_batches * 1000
\* records to save.
C5_BudgetTermination ==
    (LoopEnded /\ ~queryFailed /\ ~sourceChanged
        /\ table0.above = max_batches * PageLimit)
        => /\ fetches = max_batches
           /\ Len(saveCalls) = 1
           /\ Len(saveCalls[1]) = max_batches * PageLimit

\* C5 witness: a run with a budget of more than one page that ended on it.
C5_Witness ==
    /\ pc = "done"
    /\ ~sourceChanged
    /\ max_batches >= 2
    /\ table0.above = max_batches * PageLimit
    /\ fetches = max_batches

\* C6: if the first page is short (1 to 999 rows) the run performs exactly
\* one fetch and invokes save once with exactly those rows, for every
\* positive max_batches.
C6_ShortPageTermination ==
    (LoopEnded /\ Len(pages) >= 1 /\ pages[1] \in 1..(PageLimit - 1))
        => /\ fetches = 1
           /\ saveCalls = <<RunQuery(queries[1], table0)>>
           /\ Len(saveCalls[1]) = pages[1]

\* C6 witness: a short first page ended a run whose budget allowed more.
C6_Witness ==
    /\ pc = "done"
    /\ max_batches >= 2
    /\ pages = <<PageLimit - 1>>
    /\ Len(saveCalls) = 1

\* C7: with 0 eligible rows the run performs one fetch, never invokes save,
\* and ends with the pointer store holding the value resolved at the start
\* of the run (the default window, or the warm-start value).
C7_EmptyResultNoOp ==
    (pc = "done" /\ table0.above = 0 /\ ~sourceChanged)
        => /\ fetches = 1
           /\ saveCalls = <<>>
           /\ raised # "none" => store = ColdStart(time_format, clock).pointer
           /\ raised = "none" => store = NativePointer(store0.val, time_format).pointer

\* C7 witness: a cold-start run over a table with a row at the bound and
\* none above it.
C7_Witness ==
    /\ pc = "done"
    /\ table0 = [at |-> MaxAtBound, above |-> 0]
    /\ raised = "NotFoundException"
    /\ pages = <<0>>

\* The stored pointer is not blank and fails to parse under the format.
Malformed(s, tf) ==
    /\ NonBlank(s)
    /\ IF tf = "microseconds" THEN ~IntParses(s)
       ELSE ~IsoParses(Replace(s, PlusZero, PlusZero \o ColonZero))

\* C8: a non-blank stored pointer that fails to parse under the configured
\* format is treated as an absent pointer is: same pointer value, same query
\* bound, and no error of pointer resolution reaches the caller.
C8_MalformedIsAbsent ==
    (Resolved /\ store0.present /\ Malformed(store0.val, time_format))
        => LET a == ResolveOutcome(Absent, time_format, clock)
           IN  /\ pc = "failed" => (queryFailed \/ saveFailed)
               /\ error \in {"none", "RequestFailedException"}
               /\ store = a.pointer
               /\ pointer_epoch_usec = a.usec
               /\ \A i \in 1..Len(queries) :
                     queries[i].where = WhereClause(time_format, a.usec, a.pointer)

\* C8 witness: a run under timestamp whose stored pointer was not a
\* timestamp has queried and ended.
C8_Witness ==
    /\ pc = "done"
    /\ time_format = "timestamp"
    /\ store0.present
    /\ Malformed(store0.val, time_format)
    /\ Len(queries) >= 1

\* C9: under both formats a blank stored pointer (empty or whitespace) is a
\* cold start: pointer and query bound are the default window, never the
\* blank string.
C9_BlankIsColdStart ==
    (Resolved /\ store0.present /\ ~NonBlank(store0.val))
        => LET c == ColdStart(time_format, clock)
           IN  /\ store = c.pointer
               /\ NonBlank(store.val)
               /\ \A i \in 1..Len(queries) :
                     queries[i].where = WhereClause(time_format, c.usec, c.pointer)

\* C10 as stated: a stored pointer malformed under the format makes the run
\* fail with ConfigurationException before any remote query.
C10_MalformedIsFatal ==
    (Resolved /\ store0.present /\ Malformed(store0.val, time_format))
        => (pc = "failed" /\ error = "ConfigurationException" /\ fetches = 0)

\* C10 amended: a stored pointer malformed under the format raises
\* ConfigurationException inside pointer resolution, where it is handled:
\* the exception never reaches the caller and the run goes on to its queries.
C10_MalformedIsHandled ==
    (Resolved /\ store0.present /\ Malformed(store0.val, time_format))
        => /\ raised = "ConfigurationException"
           /\ error # "ConfigurationException"
           /\ pc = "failed" => fetches >= 1

\* C10 witness: the exception was raised for a non-integer pointer under
\* microseconds and the run went on to fetch a page.
C10_Witness ==
    /\ time_format = "microseconds"
    /\ store0.present
    /\ Malformed(store0.val, time_format)
    /\ raised = "ConfigurationException"
    /\ error = "none"
    /\ fetches >= 1

\* The instant, in microseconds since the epoch, that the text of a pointer
\* denotes under a time format.
Denoted(s, tf) == IF tf = "microseconds" THEN PyInt(s) ELSE IsoSeconds(s) * Million

\* Every query of the run so far has the pointer store's text as its bound.
BoundIsStore == \A i \in 1..Len(queries) : queries[i].where.text = store.val

\* now minus 7 days, in microseconds since the epoch.
SevenDaysBefore(now) == (now.sec - 7 * 86400) * 1000000 + now.usec

\* C11 as stated: on a cold start (no prior pointer) the resolved value
\* equals now minus 7 days under both formats, and that value is the bound
\* of every query and the pointer written to the store.
C11_ColdStartIsWeekAgo ==
    (Resolved /\ ~store0.present)
        => /\ store.present
           /\ Denoted(store.val, time_format) = SevenDaysBefore(clock)
           /\ BoundIsStore

\* C11 amended: on a cold start the resolved value is now minus 7 days under
\* microseconds and now minus 7 days cut to the whole second under
\* timestamp; that value is the bound of every query and the pointer written
\* to the store.
C11_ColdStartIsWeekAgoToTheSecond ==
    (Resolved /\ ~store0.present)
        => /\ store.present
           /\ time_format = "microseconds"
                 => Denoted(store.val, time_format) = SevenDaysBefore(clock)
           /\ time_format = "timestamp"
                 => Denoted(store.val, time_format)
                       = SevenDaysBefore(clock) - clock.usec
           /\ BoundIsStore

\* C11 witness: a cold start under timestamp, the clock between two
\* seconds, after a query.
C11_Witness ==
    /\ ~store0.present
    /\ time_format = "timestamp"
    /\ clock.usec # 0
    /\ fetches >= 1
    /\ store = Present(Strftime(WeekAgo(clock)))

\* The text is str(n) of a non-negative integer n.
CanonicalNat(s) == IntParses(s) /\ \A i \in 1..Len(s) : IsDigit(s[i])
                   /\ (Len(s) > 1 => s[1] # "0")

\* C12: under microseconds, a stored pointer str(n), n >= 0, takes the warm
\* path, the query bound is n and the pointer is written back as str(n).
C12_WarmMicrosecondsRoundTrip ==
    (Resolved /\ time_format = "microseconds" /\ store0.present
        /\ CanonicalNat(store0.val))
        => /\ raised = "none"
           /\ pointer_epoch_usec.set
           /\ PyStr(pointer_epoch_usec.val) = store0.val
           /\ store = store0
           /\ \A i \in 1..Len(queries) :
                 queries[i].where = [op |-> ">", kind |-> "integer",
                                     text |-> store0.val]

\* C12 witness: the stored pointer is "0" and a query was issued.
C12_Witness ==
    /\ time_format = "microseconds"
    /\ store0 = Present(<<"0">>)
    /\ raised = "none"
    /\ fetches >= 1

\* The text is a date-time the timestamp format accepts.
ValidTimestamp(s) ==
    NonBlank(s) /\ IsoParses(Replace(s, PlusZero, PlusZero \o ColonZero))

\* C13: under timestamp, a valid stored timestamp (with or without the +00
\* shorthand) takes the warm path and is kept character for character, as
\* the pointer and in the query bound.
C13_WarmTimestampVerbatim ==
    (Resolved /\ time_format = "timestamp" /\ store0.present
        /\ ValidTimestamp(store0.val))
        => /\ raised = "none"
           /\ store = store0
           /\ \A i \in 1..Len(queries) :
                 queries[i].where = [op |-> ">", kind |-> "TIMESTAMP",
                                     text |-> store0.val]

\* C13 witness: a stored pointer with the +00 shorthand, after a query.
C13_Witness ==
    /\ time_format = "timestamp"
    /\ store0 = Present(<<"D", "4", "2">> \o PlusZero)
    /\ raised = "none"
    /\ fetches >= 1

\* The configuration breaks one of the rules collect checks: a required
\* field is missing, pointer_path is empty, max_batches is not a positive
\* integer, project, dataset or table is not a string, columns is not a list,
\* or time_format is not one of the two formats.
RuleViolated(cfg) ==
    \/ \E f \in {"project_id", "dataset_name", "table_name", "columns",
                 "pointer_path"} : cfg[f].type = "missing"
    \/ cfg.pointer_path.type # "str" \/ cfg.pointer_path.s = ""
    \/ /\ cfg.max_batches.type # "missing"
       /\ (cfg.max_batches.type # "int" \/ cfg.max_batches.n <= 0)
    \/ \E f \in {"project_id", "dataset_name", "table_name"} : cfg[f].type # "str"
    \/ cfg.columns.type # "list"
    \/ /\ cfg.time_format.type # "missing"
       /\ (cfg.time_format.type # "str"
              \/ cfg.time_format.s \notin {"microseconds", "timestamp"})

\* The run has not gone past validation: no client was constructed, the
\* pointer was neither read nor written, no query was built or run, nothing
\* was saved.
StoppedAtValidation ==
    /\ pc \in {"validate", "failed"}
    /\ pc = "failed" => error = "ConfigurationException"
    /\ store = store0
    /\ raised = "none"
    /\ query = NoQuery
    /\ fetches = 0
    /\ queries = <<>>
    /\ saveCalls = <<>>

\* C14: a configuration that breaks a validation rule makes collect raise
\* ConfigurationException with no client construction, no pointer read or
\* write, no query and no save.
C14_NoRemoteCallBeforeValidation == RuleViolated(config) => StoppedAtValidation

\* C14 witness: a run refused for its time_format.
C14_Witness ==
    /\ pc = "failed"
    /\ error = "ConfigurationException"
    /\ config.time_format = StrV("seconds")

\* C15: a configuration whose project_id, dataset_name or table_name is the
\* empty string, or whose columns are empty, is refused with
\* ConfigurationException and no query is built from it.
C15_EmptyFieldsRefused ==
    (\/ \E f \in {"project_id", "dataset_name", "table_name"} : config[f] = StrV("")
     \/ config.columns = ListV(<<>>))
        => StoppedAtValidation

\* C16: every query of a run compares with > against the pointer resolved at
\* the start of the run, and the bound is the same for every page.
C16_StrictFixedBound ==
    \A i \in 1..Len(queries) :
        /\ queries[i].where.op = ">"
        /\ queries[i].where = queries[1].where
        /\ LET o == ResolveOutcome(store0, time_format, clock)
           IN  queries[i].where.text =
                  IF time_format = "microseconds" THEN PyStr(o.usec.val)
                  ELSE o.pointer.val

\* C16 witness: a run that issued as many queries as its budget allows.
C16_Witness ==
    /\ pc = "done"
    /\ Len(queries) = MaxMaxBatches
    /\ time_format = "timestamp"

\* C17: after a flush (save invoked with rows) the pointer collect wrote is
\* the value computed at resolve time, never one derived from the rows.
C17_PointerStaysAtResolvedValue ==
    (pc = "done" /\ saveCalls # <<>>)
        => /\ raised # "none" => store = ColdStart(time_format, clock).pointer
           /\ (raised = "none" /\ time_format = "timestamp") => store = store0
           /\ (raised = "none" /\ time_format = "microseconds")
                 => store = Present(PyStr(PyInt(store0.val)))

\* C17 witness: a warm-start run that saved the rows of two pages.
C17_Witness ==
    /\ pc = "done"
    /\ raised = "none"
    /\ batch_count >= 2
    /\ Len(saveCalls) = 1
    /\ saveCalls[1] # <<>>

\* C19: an exception of save during the flush reaches the caller as
\* RequestFailedException, as a query failure does.
C19_SaveFailureIsRequestFailed ==
    saveFailed => (pc = "failed" /\ error = "RequestFailedException")

\* C19 witness: save raised on the rows of two pages.
C19_Witness == saveFailed /\ batch_count >= 2 /\ ~queryFailed

\* C20: whatever path pointer resolution took, the value the loop reads for
\* the bound is assigned: pointer_epoch_usec under microseconds, the pointer
\* string under timestamp; building a query never fails on an unset value.
C20_BoundAssignedBeforeLoop ==
    /\ error # "UnboundLocalError"
    /\ pc \in {"build", "execute"} =>
          /\ time_format = "microseconds" => pointer_epoch_usec.set
          /\ time_format = "timestamp" => store.present

\* C20 witness: a warm start under timestamp, where pointer_epoch_usec is
\* left unassigned and the query is built from the pointer string.
C20_Witness ==
    /\ pc = "execute"
    /\ time_format = "timestamp"
    /\ raised = "none"
    /\ ~pointer_epoch_usec.set
    /\ query.where.kind = "TIMESTAMP"

\* The loop goes on to another fetch only below the budget and after a full
\* page; batch_count and the number of fetches never exceed max_batches.
BoundedPaging ==
    /\ batch_count <= max_batches
    /\ fetches <= max_batches
    /\ (pc \in {"build", "execute"} /\ fetches >= 1)
          => (batch_count < max_batches /\ pages[Len(pages)] = PageLimit)

\* An upper bound of the number of steps collect has left: three steps
\* before the loop, then two (build, execute) for each page of the budget.
StepsLeft ==
    LET budget == IF MaxMaxBatches > DefaultMaxBatches
                  THEN MaxMaxBatches ELSE DefaultMaxBatches
    IN  CASE pc = "validate" -> 2 * budget + 4
          [] pc = "client" -> 2 * budget + 3
          [] pc = "resolve" -> 2 * budget + 2
          [] pc = "build" -> 2 * (max_batches - batch_count) + 1
          [] pc = "execute" -> 2 * (max_batches - batch_count)
          [] OTHER -> 0

\* C18: the loop continues only if batch_count < max_batches and the last
\* page had exactly 1000 rows, so batch_count and the number of fetches never
\* exceed max_batches, and every run ends (Flushed or Aborted) provided each
\* remote call returns: every step of collect lowers StepsLeft, which is
\* never negative, and no step is taken once the run has ended.
C18_BoundedPagingTerminates ==
    [][/\ BoundedPaging /\ BoundedPaging'
       /\ StepsLeft >= 0 /\ StepsLeft' >= 0
       /\ pc' # pc => StepsLeft' < StepsLeft
       /\ pc' \in {"client", "resolve", "build", "execute", "done", "failed"}
       /\ pc \notin {"done", "failed"}]_vars

\* C18 witness: a run that used its whole budget of more than one page and
\* ended on a full page.
C18_Witness ==
    /\ pc = "done"
    /\ max_batches >= 2
    /\ batch_count = max_batches
    /\ fetches = max_batches
    /\ pages[Len(pages)] = PageLimit

====
